---- MODULE Spec2Model ----
(***************************************************************************)
(* depthexporter: replay of the order mutation log in fixed time buckets,  *)
(* maintenance of the live order table and per-bucket depth aggregation.   *)
(*                                                                         *)
(* Two programs are modelled, selected by `variant`:                       *)
(*   "strict"  -- src/main.go           (decimal prices, one depth file    *)
(*                                       per market, no live-orders file)  *)
(*   "minimal" -- src/unnamed/part_000  (uint256 prices, one depth file    *)
(*                                       and one live-orders file)         *)
(*                                                                         *)
(* Time is counted in ticks; a bucket is `width` ticks wide (the value of  *)
(* BUCKET_MINUTES expressed in ticks).  The orders table of the database   *)
(* is `log`, kept in (vega_time, seq_num) order: seq_num is the position.  *)
(***************************************************************************)
EXTENDS Integers, Sequences, FiniteSets, TLC

VARIABLES
    variant,        \* which program runs
    width,          \* BUCKET_MINUTES, in ticks
    log,            \* rows of the orders table, in (vega_time, seq_num) order
    firstBlock,     \* vega_time of the first row of the blocks table
    lastBlock,      \* vega_time of the last row of the blocks table
    pc,             \* "running" | "done" | "fatal"
    start,          \* main: start
    end,            \* main: end
    liveOrders,     \* main: liveOrders
    orders,         \* doBucket: orders, as positions of the log
    depth,          \* doBucket: depth (volume in main.go)
    files,          \* rows handed to the csv writers by the latest doBucket
    buckets,        \* the <<start, end>> pairs doBucket was invoked with
    applied,        \* positions of the log applied to liveOrders, in order
    faulted,        \* a collaborator call has failed during the run
    horizon,        \* vega_time of the last block the chain will produce
    rerun,          \* "off": one run; "first" | "second": the program is run twice
    history,        \* table, depth and reports of the buckets this run completed
    previous        \* the history of the run before this one

vars == <<variant, width, log, firstBlock, lastBlock, pc, start, end,
          liveOrders, orders, depth, files, buckets, applied,
          faulted, horizon, rerun, history, previous>>

----------------------------------------------------------------------------
(* Bounds of the model *)

\* rows of the orders table in the runs over a book or over one order
MaxLog == 3
\* rows of the orders table in the runs over differing bucket grids
MaxTimingLog == 2
\* vega_time of the last block in the runs over differing bucket grids
MaxTime == 6

----------------------------------------------------------------------------
(* entities: the enumerations of the order fields *)

OrderStatus == {"Unspecified", "Active", "Expired", "Cancelled", "Stopped",
                "Filled", "Rejected", "PartiallyFilled", "Parked"}
OrderType == {"Unspecified", "Limit", "Market", "Network"}
OrderTimeInForce == {"Unspecified", "GTC", "GTT", "IOC", "FOK", "GFA", "GFN"}
Side == {"buy", "sell"}

Variants == {"strict", "minimal"}

----------------------------------------------------------------------------
(* Maps *)

EmptyMap == [x \in {} |-> 0]

Put(m, k, v) == [x \in (DOMAIN m) \cup {k} |-> IF x = k THEN v ELSE m[x]]

\* mutant: deleting one key clears the map
DeleteAll(m, k) == EmptyMap

Delete(m, k) == [x \in (DOMAIN m) \ {k} |-> m[x]]

RECURSIVE SeqsOver(_)
\* every sequence that lists each element of the set S exactly once
SeqsOver(S) ==
    IF S = {} THEN {<< >>}
    ELSE UNION {{<<x>> \o s : s \in SeqsOver(S \ {x})} : x \in S}

----------------------------------------------------------------------------
(* Order, isLive, Level *)

\* The Order a row of the orders table is scanned into.  A decimal.Decimal
\* holds a pointer to a freshly allocated big.Int, so in main.go two scanned
\* prices are distinct Go values even when numerically equal: `ref` is that
\* allocation (the row's position).  uint256.Int is an array value: ref = 0.
Scan(i) ==
    [ID          |-> log[i].id,
     MarketID    |-> log[i].market_id,
     Side        |-> log[i].side,
     Price       |-> [val |-> log[i].price,
                      ref |-> IF variant = "strict" THEN i ELSE 0],
     Remaining   |-> log[i].remaining,
     TimeInForce |-> log[i].time_in_force,
     Type        |-> log[i].type,
     Status      |-> log[i].status]

\* mutant: parked orders are not live
isLiveStrictNoParked(o) ==
    IF o.Status # "Active" THEN FALSE
    ELSE IF o.Type # "Limit" THEN FALSE
    ELSE IF o.TimeInForce = "IOC" \/ o.TimeInForce = "FOK" THEN FALSE
    ELSE TRUE

isLiveStrict(o) ==
    IF o.Status # "Active" /\ o.Status # "Parked" THEN FALSE
    ELSE IF o.Type # "Limit" THEN FALSE
    ELSE IF o.TimeInForce = "IOC" \/ o.TimeInForce = "FOK" THEN FALSE
    ELSE TRUE

\* mutant: part_000 takes parked orders for live as main.go does
isLiveMinimalOrParked(o) == o.Status = "Active" \/ o.Status = "Parked"

isLiveMinimal(o) == o.Status = "Active"

isLive(o) == IF variant = "strict" THEN isLiveStrict(o) ELSE isLiveMinimal(o)

Level(o) == [price |-> o.Price, side |-> o.Side]

----------------------------------------------------------------------------
(* doBucket: query, table update, aggregation *)

\* select ... where vega_time >= $1 and vega_time < $2 order by vega_time, seq_num
\* Rows of blocks later than the last block are not in the database yet.
\* mutant: the upper bound of the window is inclusive
InWindowClosed(i, s, e) == log[i].vega_time >= s /\ log[i].vega_time <= e

\* mutant: the lower bound of the window is exclusive
InWindowOpenStart(i, s, e) == log[i].vega_time > s /\ log[i].vega_time < e

InWindow(i, s, e) == log[i].vega_time >= s /\ log[i].vega_time < e

\* mutant: the rows come latest first (order by vega_time desc, seq_num desc)
QueryDescending(s, e) ==
    LET q == SelectSeq([i \in 1..Len(log) |-> i],
                       LAMBDA i : InWindow(i, s, e) /\ log[i].vega_time <= lastBlock)
    IN [k \in 1..Len(q) |-> q[Len(q) + 1 - k]]

Query(s, e) ==
    SelectSeq([i \in 1..Len(log) |-> i],
              LAMBDA i : InWindow(i, s, e) /\ log[i].vega_time <= lastBlock)

\* mutant: a row that is not live leaves the entry in place
ApplyOrderNoDelete(table, order) ==
    IF isLive(order) THEN Put(table, order.ID, order) ELSE table

ApplyOrder(table, order) ==
    IF isLive(order) THEN Put(table, order.ID, order)
    ELSE Delete(table, order.ID)

RECURSIVE ApplyOrders(_, _)
ApplyOrders(table, os) ==
    IF os = << >> THEN table
    ELSE ApplyOrders(ApplyOrder(table, Scan(Head(os))), Tail(os))

\* mutant: an order with nothing remaining adds no level
AddVolumeSkipZero(d, order) ==
    IF order.Remaining = 0 THEN d
    ELSE LET d1  == IF order.MarketID \in DOMAIN d THEN d
                    ELSE Put(d, order.MarketID, EmptyMap)
             lev == Level(order)
             old == IF lev \in DOMAIN d1[order.MarketID]
                    THEN d1[order.MarketID][lev] ELSE 0
         IN Put(d1, order.MarketID,
                Put(d1[order.MarketID], lev, old + order.Remaining))

AddVolume(d, order) ==
    LET d1  == IF order.MarketID \in DOMAIN d THEN d
               ELSE Put(d, order.MarketID, EmptyMap)
        lev == Level(order)
        old == IF lev \in DOMAIN d1[order.MarketID]
               THEN d1[order.MarketID][lev] ELSE 0
    IN Put(d1, order.MarketID,
           Put(d1[order.MarketID], lev, old + order.Remaining))

RECURSIVE AggregateOver(_, _, _)
AggregateOver(table, ids, d) ==
    IF ids = {} THEN d
    ELSE LET id == CHOOSE x \in ids : TRUE
         IN AggregateOver(table, ids \ {id}, AddVolume(d, table[id]))

\* mutant: the volumes are added to the aggregation of the bucket before
AggregateOnPrevious(table) == AggregateOver(table, DOMAIN table, depth)

Aggregate(table) == AggregateOver(table, DOMAIN table, EmptyMap)

----------------------------------------------------------------------------
(* Reports *)

\* sort.Slice(sprices, less) with less(i, j) = sprices[j].price < sprices[i].price
\* over maps.Keys(prices), whose order is the map's iteration order: any
\* listing of the keys in which no later key has a greater price.
PriceLess(a, b) == a.price.val < b.price.val

SortedLevels(prices) ==
    {s \in SeqsOver(DOMAIN prices) :
        \A i, j \in 1..Len(s) : i < j => ~PriceLess(s[i], s[j])}

DepthRow(e, marketID, level, vol) ==
    [time |-> e, market |-> marketID, side |-> level.side,
     price |-> level.price.val, volume |-> vol]

MarketRows(e, marketID, prices, levels) ==
    [k \in 1..Len(levels) |-> DepthRow(e, marketID, levels[k], prices[levels[k]])]

LiveRow(e, order) ==
    [time |-> e, market |-> order.MarketID, id |-> order.ID, side |-> order.Side,
     price |-> order.Price.val, remaining |-> order.Remaining]

RECURSIVE Concat(_)
Concat(ss) == IF ss = << >> THEN << >> ELSE Head(ss) \o Concat(Tail(ss))

\* for every market of the aggregation, one possible outcome of the sort
LevelOrders(d) ==
    {lss \in [DOMAIN d -> UNION {SortedLevels(d[m]) : m \in DOMAIN d}] :
        \A m \in DOMAIN d : lss[m] \in SortedLevels(d[m])}

DepthName(e, marketID) == [kind |-> "depth", market |-> marketID, end |-> e]
LiveName(e) == [kind |-> "liveorders", market |-> "", end |-> e]

\* main.go, doBucket: one depth file per market
DepthFilesStrict(e, d, lss) ==
    [n \in {DepthName(e, m) : m \in DOMAIN d} |->
        MarketRows(e, n.market, d[n.market], lss[n.market])]

\* part_000, writeDepth: one file, the markets in the order `ms` of the range
writeDepth(e, d, lss, ms) ==
    [n \in {DepthName(e, "")} |->
        Concat([k \in 1..Len(ms) |-> MarketRows(e, ms[k], d[ms[k]], lss[ms[k]])])]

\* mutant: the last entry of the range is not written
writeLiveOrdersShort(e, table, lo) ==
    [n \in {LiveName(e)} |-> [k \in 1..(Len(lo) - 1) |-> LiveRow(e, table[lo[k]])]]

\* part_000, writeLiveOrders: one row per entry, in the order `lo` of the range
writeLiveOrders(e, table, lo) ==
    [n \in {LiveName(e)} |-> [k \in 1..Len(lo) |-> LiveRow(e, table[lo[k]])]]

Merge(f, g) == [n \in (DOMAIN f) \cup (DOMAIN g) |-> IF n \in DOMAIN f THEN f[n] ELSE g[n]]

----------------------------------------------------------------------------
(* Failures of the collaborators.  At most one call fails per bucket:      *)
(* fault.op names the call, fault.file the report it belongs to.           *)

NoFault == [op |-> "none", file |-> ""]

Faults ==
    {NoFault, [op |-> "query", file |-> ""]}
    \cup [op : {"create", "write", "flush"}, file : {"depth", "liveorders"}]

HasRows(file, d, table) ==
    IF file = "depth" THEN DOMAIN d # {} ELSE DOMAIN table # {}

\* the failing call is actually made while this bucket is written
Attempted(fault, d, table) ==
    CASE fault.op = "none" -> FALSE
      [] fault.op = "query" -> TRUE
      [] fault.op # "query" /\ fault.op # "none"
            /\ fault.file = "liveorders" /\ variant = "strict" -> FALSE
      [] OTHER ->
            IF fault.op = "create"
            THEN (variant = "minimal" \/ DOMAIN d # {})
            ELSE HasRows(fault.file, d, table)

\* the failure ends the run: log.Fatal in main.go's doBucket, or an error
\* returned to main and log.Fatal there.  main.go drops the result of
\* csvWriter.Write; neither program asks the csv writer for the error of Flush.
IsFatal(fault) ==
    \/ fault.op \in {"query", "create"}
    \/ fault.op = "write" /\ variant = "minimal"

\* the rows handed to the csv writers, up to the failing call if it is fatal
WrittenFiles(e, table, d, lss, ms, lo, fault) ==
    LET stop == Attempted(fault, d, table) /\ IsFatal(fault)
    IN IF variant = "strict"
       THEN IF stop THEN EmptyMap ELSE DepthFilesStrict(e, d, lss)
       ELSE IF stop /\ fault.file = "depth"
            THEN IF fault.op = "create" THEN EmptyMap
                 ELSE [n \in {DepthName(e, "")} |-> << >>]
            ELSE IF stop
                 THEN IF fault.op = "create" THEN writeDepth(e, d, lss, ms)
                      ELSE Merge(writeDepth(e, d, lss, ms),
                                 [n \in {LiveName(e)} |-> << >>])
                 ELSE Merge(writeDepth(e, d, lss, ms), writeLiveOrders(e, table, lo))

----------------------------------------------------------------------------
(* The event log *)

Row(t, id, m, sd, p, q, k) ==
    [vega_time |-> t, id |-> id, market_id |-> m, side |-> sd, price |-> p,
     remaining |-> q, status |-> k[1], type |-> k[2], time_in_force |-> k[3]]

\* <<status, type, time in force>>
Resting == <<"Active", "Limit", "GTC">>
Gone == <<"Filled", "Limit", "GTC">>
PolicyKinds == {Resting, Gone, <<"Parked", "Limit", "GTC">>,
                <<"Active", "Market", "IOC">>, <<"Active", "Limit", "FOK">>}
AllKinds == OrderStatus \X OrderType \X OrderTimeInForce

\* two orders that share a level, a price, a market, or nothing
BookRows(times) ==
    {Row(t, "o1", "m1", "buy", p, 1, Resting) : t \in times, p \in {1, 2}}
    \cup {Row(t, "o2", ms[1], ms[2], 1, 2, Resting) :
            t \in times, ms \in {<<"m1", "buy">>, <<"m1", "sell">>, <<"m2", "buy">>}}
    \cup {Row(t, "o2", "m1", "buy", 1, 0, Resting) : t \in times}
    \cup {Row(t, "o2", "m1", "buy", 1, 0, Gone) : t \in times}

\* one order whose status, type and time in force change
PolicyRows(times, kinds) ==
    {Row(t, "o1", "m1", "buy", 1, 1, k) : t \in times, k \in kinds}

\* the orders table: at most n rows in increasing (vega_time, seq_num) order
Logs(rows, n) ==
    UNION {{l \in [1..k -> rows] :
              \A i \in 1..(k - 1) : l[i].vega_time <= l[i + 1].vega_time}
           : k \in 0..n}

\* time_bucket('W minutes', t)
TimeBucket(t, w) == (t \div w) * w

----------------------------------------------------------------------------
(* main *)

\* the state when the loop of main is entered.  Every row of orders carries
\* the vega_time of a block, so none is earlier than the first block.
InitOver(widths, firsts, last, logs) ==
    /\ variant \in Variants
    /\ width \in widths
    /\ firstBlock \in firsts
    /\ horizon = last
    /\ log \in logs
    /\ \A i \in 1..Len(log) : log[i].vega_time >= firstBlock
    /\ pc = "running"
    /\ start = TimeBucket(firstBlock, width)
    /\ end = TimeBucket(firstBlock, width) + width
    /\ liveOrders = EmptyMap
    /\ orders = << >>
    /\ depth = EmptyMap
    /\ files = EmptyMap
    /\ buckets = << >>
    /\ applied = << >>
    /\ faulted = FALSE
    /\ history = << >>
    /\ previous = << >>

\* rows in the interior of the first and of the second bucket
BookTimes == {1, 3}

\* two buckets over a book of two orders
InitBook == InitOver({2}, {1}, 4, Logs(BookRows(BookTimes), MaxLog))

\* two buckets over one order of changing kind
InitPolicy == InitOver({2}, {1}, 4, Logs(PolicyRows(BookTimes, PolicyKinds), MaxLog))

\* one row of every status, type and time in force
InitClassify == InitOver({2}, {1}, 2, Logs(PolicyRows({1}, AllKinds), 1) \ {<< >>})

\* rows at every tick, bucket widths and first blocks that differ
InitTiming ==
    InitOver({2, 3}, {1, 3}, MaxTime,
             Logs(PolicyRows(1..MaxTime, {Resting, Gone}), MaxTimingLog))

\* the run starts when the first block has been stored; later blocks arrive
\* while it runs
Init ==
    /\ InitBook \/ InitPolicy \/ InitClassify \/ InitTiming
    /\ lastBlock = firstBlock
    /\ rerun = "off"

\* the run starts over a chain that holds all its blocks and has stopped;
\* the orders table holds at most one row
InitFixed ==
    /\ InitOver({2, 3}, {1, 3}, MaxTime, Logs(PolicyRows(1..MaxTime, {Resting}), 1))
    /\ lastBlock \in firstBlock..horizon
    /\ rerun = "off"

\* a new block is stored, with the order rows it carries
NewBlock ==
    /\ pc = "running"
    /\ \E t \in (lastBlock + 1)..horizon : lastBlock' = t
    /\ UNCHANGED <<variant, width, log, firstBlock, pc, start, end,
                   liveOrders, orders, depth, files, buckets, applied, faulted,
                   horizon, rerun, history, previous>>

\* getLastBlockTime returns an error
LastBlockFails ==
    /\ pc = "running"
    /\ pc' = "fatal"
    /\ faulted' = TRUE
    /\ UNCHANGED <<variant, width, log, firstBlock, lastBlock, start, end,
                   liveOrders, orders, depth, files, buckets, applied,
                   horizon, rerun, history, previous>>

\* mutant: a bucket that ends one tick after the last block is let through
EndAfterSlack(e, t) == e > t + 1

\* mutant: a bucket that ends at the last block is not processed
EndNotBefore(e, t) == e >= t

EndAfter(e, t) == e > t

\* lastBlockTime is read, end.After(lastBlockTime): log "done" and return
Done ==
    /\ pc = "running"
    /\ EndAfter(end, lastBlock)
    /\ pc' = "done"
    /\ UNCHANGED <<variant, width, log, firstBlock, lastBlock, start, end,
                   liveOrders, orders, depth, files, buckets, applied, faulted,
                   horizon, rerun, history, previous>>

\* mutant: the new end is computed from the old start
NextEndFromOldStart(s, e, w) == s + w

\* start = end; end = start.Add(time.Minute * time.Duration(BUCKET_MINUTES))
NextStart(s, e) == e

NextEnd(s, e, w) == NextStart(s, e) + w

\* mutant: the map is made anew for every bucket
TableAtEntryFresh == EmptyMap

\* main.go line 156, part_000 line 188: the map is made once, before the loop
TableAtEntry == liveOrders

\* lastBlockTime is read, end is not after it: doBucket(start, end)
Bucket(fault) ==
    /\ pc = "running"
    /\ ~EndAfter(end, lastBlock)
    /\ buckets' = Append(buckets, <<start, end>>)
    /\ IF fault.op = "query"
       THEN /\ pc' = "fatal"
            /\ faulted' = TRUE
            /\ UNCHANGED <<start, end, liveOrders, orders, depth, files, applied,
                           history>>
       ELSE LET os    == Query(start, end)
                table == ApplyOrders(TableAtEntry, os)
                d     == Aggregate(table)
                stop  == Attempted(fault, d, table) /\ IsFatal(fault)
            IN /\ orders' = os
               /\ applied' = applied \o os
               /\ liveOrders' = table
               /\ depth' = d
               /\ \E lss \in LevelOrders(d), ms \in SeqsOver(DOMAIN d),
                     lo \in SeqsOver(DOMAIN table) :
                     files' = WrittenFiles(end, table, d, lss, ms, lo, fault)
               /\ faulted' = (faulted \/ Attempted(fault, d, table))
               /\ IF stop
                  THEN pc' = "fatal" /\ UNCHANGED <<start, end, history>>
                  ELSE /\ pc' = "running"
                       /\ start' = NextStart(start, end)
                       /\ end' = NextEnd(start, end, width)
                       /\ history' =
                             IF rerun = "off" THEN history
                             ELSE Append(history, [end |-> end, table |-> table,
                                                   depth |-> d, files |-> files'])
    /\ UNCHANGED <<variant, width, log, firstBlock, lastBlock, horizon, rerun,
                   previous>>

DoBucket == \E fault \in Faults : Bucket(fault)

Next == NewBlock \/ LastBlockFails \/ Done \/ DoBucket

Spec == Init /\ [][Next]_vars

\* the run over a chain that has stopped, with collaborators that do not fail
BucketNoFault == Bucket(NoFault)

NextFixed == Done \/ BucketNoFault

SpecFixed == InitFixed /\ [][NextFixed]_vars /\ WF_vars(NextFixed)

\* the program is started, perhaps stopped part-way, and started again over
\* the same orders table and the same blocks
InitRerun ==
    /\ InitOver({2}, {1}, 4, Logs(BookRows(BookTimes), MaxTimingLog))
    /\ lastBlock \in firstBlock..horizon
    /\ rerun = "first"

\* a new process: main computes start and end again and makes a new map;
\* os.Create truncates the files the run before left.  v is the program
\* that is started.
StartAgain(v) ==
    /\ rerun = "first"
    /\ rerun' = "second"
    /\ variant' = v
    /\ previous' = history
    /\ history' = << >>
    /\ pc' = "running"
    /\ start' = TimeBucket(firstBlock, width)
    /\ end' = TimeBucket(firstBlock, width) + width
    /\ liveOrders' = EmptyMap
    /\ orders' = << >>
    /\ depth' = EmptyMap
    /\ files' = EmptyMap
    /\ buckets' = << >>
    /\ applied' = << >>
    /\ faulted' = FALSE
    /\ UNCHANGED <<width, log, firstBlock, lastBlock, horizon>>

\* the same program is started again, wherever the run before stopped
Restart == StartAgain(variant)

NextRerun == LastBlockFails \/ Done \/ DoBucket \/ Restart

SpecRerun == InitRerun /\ [][NextRerun]_vars

\* main.go is run to its end, then part_000 over the same orders table and
\* the same blocks, with the same bucket width; no collaborator fails
InitPair ==
    /\ \/ InitOver({2}, {1}, 4, Logs(BookRows(BookTimes), MaxTimingLog))
       \/ InitOver({2}, {1}, 4, Logs(PolicyRows(BookTimes, PolicyKinds), MaxTimingLog))
    /\ variant = "strict"
    /\ lastBlock \in firstBlock..horizon
    /\ rerun = "first"

Switch == pc = "done" /\ StartAgain("minimal")

NextPair == Done \/ BucketNoFault \/ Switch

SpecPair == InitPair /\ [][NextPair]_vars

----------------------------------------------------------------------------
(* Vocabulary of the properties *)

Range(s) == {s[i] : i \in 1..Len(s)}

\* S0: the start of the first bucket
S0 == TimeBucket(firstBlock, width)

\* the latest position of the sequence of positions `ps` that is a row of `id`
LastOf(ps, id) ==
    LET own == {k \in 1..Len(ps) : log[ps[k]].id = id}
    IN ps[CHOOSE k \in own : \A j \in own : j <= k]

IdsOf(ps) == {log[ps[k]].id : k \in 1..Len(ps)}

\* the rows with occurrence time before e, in (vega_time, seq_num) order
RowsBefore(e) == SelectSeq([i \in 1..Len(log) |-> i], LAMBDA i : log[i].vega_time < e)

RECURSIVE SumRemaining(_, _)
SumRemaining(table, ids) ==
    IF ids = {} THEN 0
    ELSE LET x == CHOOSE y \in ids : TRUE
         IN table[x].Remaining + SumRemaining(table, ids \ {x})

RECURSIVE SumValues(_, _)
SumValues(f, keys) ==
    IF keys = {} THEN 0
    ELSE LET x == CHOOSE y \in keys : TRUE
         IN f[x] + SumValues(f, keys \ {x})

DepthTotal(d) ==
    SumValues([m \in DOMAIN d |-> SumValues(d[m], DOMAIN d[m])], DOMAIN d)

\* doBucket has returned nil for at least one bucket and the run has not failed
AfterBucket == pc # "fatal" /\ start > S0

----------------------------------------------------------------------------
(* C1 -- After doBucket has finished for a bucket, the keys of liveOrders  *)
(* are exactly the orders whose latest row, among the rows with occurrence *)
(* time strictly before the bucket's end in (vega_time, seq_num) order, is *)
(* live under isLive, and the value stored for each is that latest row.    *)
C1_TableIsLatestLive ==
    AfterBucket =>
        LET before == RowsBefore(start)
        IN /\ DOMAIN liveOrders =
                {id \in IdsOf(before) : isLive(Scan(LastOf(before, id)))}
           /\ \A id \in DOMAIN liveOrders :
                liveOrders[id] = Scan(LastOf(before, id))

\* two buckets done, an order removed by its latest row, another one stored
C1_Witness ==
    /\ AfterBucket
    /\ Len(buckets) = 2
    /\ \E i, j \in Range(applied) :
          /\ i < j /\ log[i].id = log[j].id
          /\ isLive(Scan(i)) /\ ~isLive(Scan(j))
          /\ log[i].id \notin DOMAIN liveOrders
    /\ \E i \in Range(applied) :
          /\ log[i].vega_time >= buckets[2][1]
          /\ log[i].id \in DOMAIN liveOrders

----------------------------------------------------------------------------
(* C2 -- Table convergence: whatever rows of one order were applied, in    *)
(* one bucket or over several, the order's state in liveOrders depends on  *)
(* the last applied row alone: stored with that row if it is live, absent  *)
(* if it is not; an absent order adds nothing to the depth.                *)
C2_TableConvergence ==
    /\ \A id \in IdsOf(applied) :
          LET last == Scan(LastOf(applied, id))
          IN IF isLive(last)
             THEN id \in DOMAIN liveOrders /\ liveOrders[id] = last
             ELSE id \notin DOMAIN liveOrders
    /\ DepthTotal(depth) = SumRemaining(liveOrders, DOMAIN liveOrders)

\* live, live, not live for one order within one bucket
C2_Witness ==
    /\ pc = "running"
    /\ \E a, b, c \in 1..Len(orders) :
          /\ a < b /\ b < c
          /\ log[orders[a]].id = log[orders[b]].id
          /\ log[orders[b]].id = log[orders[c]].id
          /\ isLive(Scan(orders[a])) /\ isLive(Scan(orders[b]))
          /\ ~isLive(Scan(orders[c]))
          /\ log[orders[a]].remaining > 0
          /\ log[orders[a]].id \notin DOMAIN liveOrders
          /\ DepthTotal(depth) = 0

----------------------------------------------------------------------------
(* C3 -- Aggregation exactness: every value of the depth computed by       *)
(* doBucket is the sum of Remaining over exactly the entries of liveOrders *)
(* with that market, that price and that side, and every market, price and *)
(* side of a stored entry has one value (so orders of different markets    *)
(* are never summed together and an order that leaves lowers its level by  *)
(* exactly its Remaining).                                                 *)
AtLevel(table, m, p, sd) ==
    {id \in DOMAIN table :
        /\ table[id].MarketID = m
        /\ table[id].Price.val = p
        /\ table[id].Side = sd}

C3_DepthIsSumPerLevel ==
    /\ \A m \in DOMAIN depth : \A lev \in DOMAIN depth[m] :
          depth[m][lev] =
              SumRemaining(liveOrders, AtLevel(liveOrders, m, lev.price.val, lev.side))
    /\ \A id \in DOMAIN liveOrders :
          /\ liveOrders[id].MarketID \in DOMAIN depth
          /\ \E lev \in DOMAIN depth[liveOrders[id].MarketID] :
                /\ lev.price.val = liveOrders[id].Price.val
                /\ lev.side = liveOrders[id].Side

\* what part_000 does: its Level holds the price by value
C3_DepthIsSumPerLevelMinimal == variant = "minimal" => C3_DepthIsSumPerLevel

\* what main.go does: a level for every stored order, holding its Remaining
C3_StrictLevelPerOrder ==
    variant = "strict" =>
        \A m \in DOMAIN depth :
            /\ Cardinality(DOMAIN depth[m]) = Cardinality({id \in DOMAIN liveOrders : liveOrders[id].MarketID = m})
            /\ \A id \in DOMAIN liveOrders :
                  liveOrders[id].MarketID = m =>
                      depth[m][Level(liveOrders[id])] = liveOrders[id].Remaining

----------------------------------------------------------------------------
(* C4 -- Termination and bucket count: when the latest block time T does   *)
(* not change and no collaborator fails, the loop reaches "done", and the  *)
(* number of doBucket invocations is then floor((T - S0) / W): none when   *)
(* T < S0 + W, and the bucket that ends exactly at T is processed.         *)
C4_TerminatesWithFloorCount ==
    /\ <>(pc = "done")
    /\ [](pc = "done" => Len(buckets) = (lastBlock - S0) \div width)

\* done after two buckets, the second of which ends exactly at T
C4_Witness ==
    /\ pc = "done"
    /\ Len(buckets) = 2
    /\ buckets[2][2] = lastBlock

\* done with no bucket processed
C4_WitnessNone == pc = "done" /\ buckets = << >> /\ lastBlock > firstBlock

----------------------------------------------------------------------------
(* C5 -- Bucket boundary exactness: while the bucket [start, end) is       *)
(* processed, a row whose occurrence time equals end is not applied (nor   *)
(* was it before), and a row whose occurrence time equals start is         *)
(* applied; so the row at a boundary is applied with the next bucket.      *)
C5_BoundaryStep ==
    (buckets' # buckets /\ (pc' = "running" \/ applied' # applied)) =>
        \A i \in 1..Len(log) :
            /\ log[i].vega_time = end => i \notin Range(applied')
            /\ log[i].vega_time = start =>
                  /\ i \in Range(orders')
                  /\ i \notin Range(applied)
                  /\ i \in Range(applied')

C5_BoundaryExactness == [][C5_BoundaryStep]_vars

\* a row stamped with the end of the first bucket was applied with the second
C5_Witness ==
    /\ Len(buckets) = 2
    /\ pc = "running"
    /\ \E i \in Range(orders) : log[i].vega_time = buckets[1][2]
    /\ \E i \in 1..Len(log) : log[i].vega_time = start /\ i \notin Range(applied)

----------------------------------------------------------------------------
(* C6 -- Sort order of the depth report: the rows written for one market   *)
(* are strictly ordered by the levels alone, by descending price and, at   *)
(* equal price, by side (buy before sell).                                 *)
SideRank(sd) == IF sd = "buy" THEN 0 ELSE 1

RowBefore(r1, r2) ==
    \/ r1.price > r2.price
    \/ r1.price = r2.price /\ SideRank(r1.side) < SideRank(r2.side)

DepthFileNames == {n \in DOMAIN files : n.kind = "depth"}

C6_RowsStrictlyOrdered ==
    \A n \in DepthFileNames : \A i, j \in 1..Len(files[n]) :
        (i < j /\ files[n][i].market = files[n][j].market) =>
            RowBefore(files[n][i], files[n][j])

\* the other tie-break, sell before buy, is not what the code does either
C6_RowsStrictlyOrderedSellFirst ==
    \A n \in DepthFileNames : \A i, j \in 1..Len(files[n]) :
        (i < j /\ files[n][i].market = files[n][j].market) =>
            \/ files[n][i].price > files[n][j].price
            \/ /\ files[n][i].price = files[n][j].price
               /\ SideRank(files[n][i].side) > SideRank(files[n][j].side)

\* what the code does: no row of a market is followed by one of greater price
C6_RowsNeverAscend ==
    \A n \in DepthFileNames : \A i, j \in 1..Len(files[n]) :
        (i < j /\ files[n][i].market = files[n][j].market) =>
            files[n][i].price >= files[n][j].price

----------------------------------------------------------------------------
(* C7 -- Carry-over: an order stored in liveOrders when a bucket is begun, *)
(* with no row in that bucket, is stored with the identical record when    *)
(* the bucket is done, and its Remaining is counted at its level of the    *)
(* bucket's depth; an entry leaves the table only when a row of its order  *)
(* that is not live is processed.                                          *)
SameLevel(table, id) ==
    {x \in DOMAIN table :
        table[x].MarketID = table[id].MarketID /\ Level(table[x]) = Level(table[id])}

C7_CarryStep ==
    (buckets' # buckets /\ pc' = "running") =>
        /\ \A id \in DOMAIN liveOrders :
              (\A i \in 1..Len(log) :
                    log[i].id = id => ~(start <= log[i].vega_time /\ log[i].vega_time < end))
              => /\ id \in DOMAIN liveOrders'
                 /\ liveOrders'[id] = liveOrders[id]
                 /\ liveOrders[id].MarketID \in DOMAIN depth'
                 /\ Level(liveOrders[id]) \in DOMAIN depth'[liveOrders[id].MarketID]
                 /\ depth'[liveOrders[id].MarketID][Level(liveOrders[id])] =
                       liveOrders[id].Remaining
                       + SumRemaining(liveOrders', SameLevel(liveOrders', id) \ {id})
        /\ \A id \in (DOMAIN liveOrders) \ (DOMAIN liveOrders') :
              \E k \in 1..Len(orders') :
                  log[orders'[k]].id = id /\ ~isLive(Scan(orders'[k]))

C7_CarryOver == [][C7_CarryStep]_vars

\* an order with rows in the first bucket only is stored after the second,
\* in which rows of another order were applied
C7_Witness ==
    /\ pc = "running"
    /\ Len(buckets) = 2
    /\ orders # << >>
    /\ \E id \in DOMAIN liveOrders :
          /\ liveOrders[id].Remaining > 0
          /\ \A i \in 1..Len(log) : log[i].id = id => log[i].vega_time < buckets[2][1]

----------------------------------------------------------------------------
(* C8 -- Fatal errors: once a read of the rows of a bucket or a step of    *)
(* writing its reports (creating a file, writing a row, flushing) has      *)
(* failed, doBucket is not invoked again and the loop does not reach done. *)
C8_FailureStep == faulted => (buckets' = buckets /\ pc' # "done")

C8_FailureIsFatal == [][C8_FailureStep]_vars

----------------------------------------------------------------------------
(* C9 -- Per-bucket hand-off.                                              *)
(* As claimed: for every bucket doBucket completes, a depth report and a   *)
(* live-orders report tagged with the bucket's end are handed over.        *)
C9_BothReportsStep ==
    (buckets' # buckets /\ pc' = "running") =>
        /\ \E n \in DOMAIN files' : n.kind = "depth" /\ n.end = end
        /\ \E n \in DOMAIN files' : n.kind = "liveorders" /\ n.end = end

C9_BothReportsHandedOff == [][C9_BothReportsStep]_vars

(* C9, amended -- for every bucket doBucket completes, part_000 hands over *)
(* one depth report and one live-orders report tagged with the bucket's    *)
(* end; main.go hands over one depth report for every market that has a    *)
(* stored order and no live-orders report.  Each report holds the levels,  *)
(* or the entries, of the table as it stands after all rows of the bucket  *)
(* were applied, and no row of a later bucket has been applied by then.    *)
LevelsOf(table, m) == {Level(table[id]) : id \in {x \in DOMAIN table : table[x].MarketID = m}}

MarketsOf(table) == {table[id].MarketID : id \in DOMAIN table}

ExpectedDepthRows(e, table, m) ==
    {[time |-> e, market |-> m, side |-> lev.side, price |-> lev.price.val,
      volume |-> SumRemaining(table,
                     {id \in DOMAIN table :
                         table[id].MarketID = m /\ Level(table[id]) = lev})] :
        lev \in LevelsOf(table, m)}

ExpectedLiveRows(e, table) ==
    {[time |-> e, market |-> table[id].MarketID, id |-> id, side |-> table[id].Side,
      price |-> table[id].Price.val, remaining |-> table[id].Remaining] :
        id \in DOMAIN table}

C9_HandOffStep ==
    (buckets' # buckets /\ pc' = "running") =>
        /\ \A i \in Range(applied') : log[i].vega_time < end
        /\ IF variant = "minimal"
           THEN /\ DOMAIN files' = {DepthName(end, ""), LiveName(end)}
                /\ Range(files'[DepthName(end, "")]) =
                      UNION {ExpectedDepthRows(end, liveOrders', m) :
                                m \in MarketsOf(liveOrders')}
                /\ Len(files'[DepthName(end, "")]) =
                      Cardinality(UNION {{<<m, lev>> : lev \in LevelsOf(liveOrders', m)} :
                                            m \in MarketsOf(liveOrders')})
                /\ Range(files'[LiveName(end)]) = ExpectedLiveRows(end, liveOrders')
                /\ Len(files'[LiveName(end)]) = Cardinality(DOMAIN liveOrders')
           ELSE /\ DOMAIN files' = {DepthName(end, m) : m \in MarketsOf(liveOrders')}
                /\ \A m \in MarketsOf(liveOrders') :
                      /\ Range(files'[DepthName(end, m)]) =
                            ExpectedDepthRows(end, liveOrders', m)
                      /\ Len(files'[DepthName(end, m)]) =
                            Cardinality(LevelsOf(liveOrders', m))

C9_HandOff == [][C9_HandOffStep]_vars

\* part_000 after its second bucket: two live orders, both reports written
C9_Witness ==
    /\ variant = "minimal"
    /\ pc = "running"
    /\ Len(buckets) = 2
    /\ orders # << >>
    /\ Cardinality(DOMAIN liveOrders) = 2
    /\ Len(files[LiveName(start)]) = 2
    /\ Len(files[DepthName(start, "")]) = 2

----------------------------------------------------------------------------
(* C10 -- Strict liveness policy: in main.go a row is classified live, and *)
(* so stored when it is the last row applied for its order, if and only if *)
(* its status is active or parked, its type is limit and its time in force *)
(* is neither immediate-or-cancel nor fill-or-kill.                        *)
C10_StrictPolicy ==
    variant = "strict" =>
        \A id \in IdsOf(applied) :
            LET r == log[LastOf(applied, id)]
            IN (id \in DOMAIN liveOrders) <=>
                  /\ r.status \in {"Active", "Parked"}
                  /\ r.type = "Limit"
                  /\ r.time_in_force \notin {"IOC", "FOK"}

\* a parked good-for-auction limit order is stored by main.go
C10_Witness ==
    /\ variant = "strict"
    /\ \E id \in DOMAIN liveOrders :
          /\ liveOrders[id].Status = "Parked"
          /\ liveOrders[id].TimeInForce = "GFA"

----------------------------------------------------------------------------
(* C11: a second run over the same log *)

Min(a, b) == IF a < b THEN a ELSE b

\* the buckets both runs completed
BothCompleted == 1..Min(Len(history), Len(previous))

\* the rows of a file, each with the number of times it occurs
RowBag(rows) ==
    [r \in Range(rows) |-> Cardinality({i \in 1..Len(rows) : rows[i] = r})]

\* C11: two runs from an empty table over the same log (same S0, W, T and
\* rows) produce, bucket for bucket, the same liveOrders table, the same
\* depth aggregation and the same emitted reports, whether or not the
\* earlier run was stopped part-way.
C11_RerunSame == \A k \in BothCompleted : history[k] = previous[k]

\* what the code ensures: the same table, the same aggregation, the same
\* files and in every file the same rows, in an order that may differ
C11_RerunSameRows ==
    \A k \in BothCompleted :
        /\ history[k].end = previous[k].end
        /\ history[k].table = previous[k].table
        /\ history[k].depth = previous[k].depth
        /\ DOMAIN history[k].files = DOMAIN previous[k].files
        /\ \A f \in DOMAIN history[k].files :
              RowBag(history[k].files[f]) = RowBag(previous[k].files[f])

\* a second run has completed two buckets that the first run completed too,
\* with rows in the reports
C11_Witness ==
    /\ rerun = "second"
    /\ Len(history) = 2
    /\ Len(previous) = 2
    /\ \E f \in DOMAIN history[2].files : Len(history[2].files[f]) >= 2

----------------------------------------------------------------------------
(* C12, C13: the buckets handed to doBucket *)

\* C12: the i-th bucket handed to doBucket is [S0 + (i-1)W, S0 + iW), where
\* S0 is the time of the first block floored to the width: the buckets are
\* contiguous, none overlaps, none is skipped, each is W wide.
C12_BucketSequence ==
    \A i \in 1..Len(buckets) :
        buckets[i] = <<S0 + (i - 1) * width, S0 + i * width>>

\* two buckets were handed over, the first block is not on a bucket boundary
\* and the first bucket does not start at the epoch
C12_Witness ==
    /\ Len(buckets) = 2
    /\ S0 > 0
    /\ firstBlock > S0
    /\ pc = "running"

\* C13: every bucket handed to doBucket ends at or before the last block
\* read in its iteration, also when blocks arrive during the run, and the
\* run does not end while a whole bucket is left.  An iteration reads the
\* last block and calls doBucket in one step and no step moves the last
\* block back, so it is stated on the buckets handed over so far.
C13_NoBucketPastLog ==
    /\ \A i \in 1..Len(buckets) : buckets[i][2] <= lastBlock
    /\ pc = "done" => end > lastBlock
    /\ pc = "running" /\ Len(buckets) > 0 => start <= lastBlock

\* the first bucket was handed over after the last block had moved past its
\* end, the second when a later block completed it
C13_Witness ==
    /\ Len(buckets) = 2
    /\ buckets[2][2] = lastBlock
    /\ buckets[1][2] > firstBlock
    /\ lastBlock < horizon
    /\ pc = "running"

----------------------------------------------------------------------------
(* C14, C15, C16: what the table and the aggregation hold *)

\* the levels of the live orders of market m
LiveLevels(table, m) ==
    {Level(table[id]) : id \in {x \in DOMAIN table : table[x].MarketID = m}}

\* C14: a (market, price, side) key is in the depth aggregation of a bucket
\* exactly when an order in liveOrders at the end of the bucket has that
\* market, price and side; a level or a market whose last live order was
\* removed or moved to another price is not in it.
C14_NoStaleLevels ==
    /\ DOMAIN depth = {liveOrders[id].MarketID : id \in DOMAIN liveOrders}
    /\ \A m \in DOMAIN depth : DOMAIN depth[m] = LiveLevels(liveOrders, m)
    /\ \A m \in DOMAIN depth : \A lev \in DOMAIN depth[m] :
          AtLevel(liveOrders, m, lev.price.val, lev.side) # {}

\* in the second bucket an order moved to another price, and another order,
\* the only one of its market, was removed
C14_Witness ==
    /\ AfterBucket
    /\ Len(buckets) = 2
    /\ \E i, j \in Range(applied) :
          /\ log[i].vega_time < buckets[2][1] /\ buckets[2][1] <= log[j].vega_time
          /\ log[i].id = log[j].id
          /\ isLive(Scan(i)) /\ isLive(Scan(j))
          /\ log[i].price # log[j].price
          /\ log[j].id \in DOMAIN liveOrders
          /\ AtLevel(liveOrders, log[i].market_id, log[i].price, log[i].side) = {}

\* an order, the only one of its market, was removed in the second bucket
C14_WitnessMarketGone ==
    /\ AfterBucket
    /\ Len(buckets) = 2
    /\ \E i, j \in Range(applied) :
          /\ log[i].vega_time < buckets[2][1] /\ buckets[2][1] <= log[j].vega_time
          /\ log[i].id = log[j].id
          /\ isLive(Scan(i)) /\ ~isLive(Scan(j))
          /\ log[i].market_id \notin DOMAIN depth
    /\ DOMAIN liveOrders # {}

\* the rows of the depth report for a market, price and side
DepthReportRows(m, p, sd) ==
    {r \in UNION {Range(files[n]) : n \in DepthFileNames} :
        r.market = m /\ r.price = p /\ r.side = sd}

\* C15: a live row with Remaining 0 is inserted like any other, and its level
\* is in the depth aggregation and in the depth report, with volume 0 when
\* it is the only order at the level; no entry of the table is left out of
\* the aggregation.
C15_ZeroQuantityKept ==
    /\ \A id \in IdsOf(applied) :
          LET i == LastOf(applied, id)
          IN (isLive(Scan(i)) /\ log[i].remaining = 0) =>
                 id \in DOMAIN liveOrders /\ liveOrders[id] = Scan(i)
    /\ \A id \in DOMAIN liveOrders :
          LET o == liveOrders[id]
              alone == AtLevel(liveOrders, o.MarketID, o.Price.val, o.Side) = {id}
          IN /\ o.MarketID \in DOMAIN depth
             /\ Level(o) \in DOMAIN depth[o.MarketID]
             /\ alone => depth[o.MarketID][Level(o)] = o.Remaining
             /\ AfterBucket =>
                   /\ DepthReportRows(o.MarketID, o.Price.val, o.Side) # {}
                   /\ alone => \A r \in DepthReportRows(o.MarketID, o.Price.val, o.Side) :
                                  r.volume = o.Remaining

\* the only order of the table has nothing remaining and its level was
\* reported with volume 0
C15_Witness ==
    /\ AfterBucket
    /\ \E id \in DOMAIN liveOrders :
          /\ DOMAIN liveOrders = {id}
          /\ liveOrders[id].Remaining = 0
          /\ \E r \in DepthReportRows(liveOrders[id].MarketID,
                                       liveOrders[id].Price.val, liveOrders[id].Side) :
                r.volume = 0

\* C16: every stored entry is live under the policy of its program: in
\* main.go status Active or Parked, type Limit and a time in force other
\* than IOC and FOK; in part_000 status Active; in both the key of an entry
\* is the ID of the order stored under it.
C16_StoredEntriesLive ==
    \A id \in DOMAIN liveOrders :
        LET o == liveOrders[id]
        IN /\ o.ID = id
           /\ variant = "strict" =>
                 /\ o.Status \in {"Active", "Parked"}
                 /\ o.Type = "Limit"
                 /\ o.TimeInForce \notin {"IOC", "FOK"}
           /\ variant = "minimal" => o.Status = "Active"

\* part_000 holds a market order, which main.go would not, stored after a
\* parked row had been applied
C16_Witness ==
    /\ variant = "minimal"
    /\ AfterBucket
    /\ \E id \in DOMAIN liveOrders : liveOrders[id].Type = "Market"
    /\ \E i \in Range(applied) : log[i].status = "Parked"

----------------------------------------------------------------------------
(* C17: the frame of applying a record *)

\* the rows a step applies
NewlyApplied == SubSeq(applied', Len(applied) + 1, Len(applied'))

\* C17: applying a record for id X changes at most the entry of X and leaves
\* every other entry as it was; a record that is not live, for an id that is
\* not in the table, leaves the whole table as it was and raises no error.
\* A step applies the rows of one bucket, so it changes at most the entries
\* of their ids; a bucket of one row is the case of one record.
C17_OneEntryStep ==
    /\ \A id \in ((DOMAIN liveOrders) \cup (DOMAIN liveOrders')) \ IdsOf(NewlyApplied) :
          /\ id \in DOMAIN liveOrders
          /\ id \in DOMAIN liveOrders'
          /\ liveOrders'[id] = liveOrders[id]
    /\ (/\ Len(NewlyApplied) > 0
        /\ \A k \in 1..Len(NewlyApplied) :
              /\ ~isLive(Scan(NewlyApplied[k]))
              /\ log[NewlyApplied[k]].id \notin DOMAIN liveOrders)
       => /\ liveOrders' = liveOrders
          /\ ~faulted' => pc' = "running"

C17_OneEntry == [][C17_OneEntryStep]_vars

\* the second bucket held one row, not live, of an order that had no row
\* before, and the table holds another order
C17_Witness ==
    /\ AfterBucket
    /\ Len(buckets) = 2
    /\ Len(orders) = 1
    /\ ~isLive(Scan(orders[1]))
    /\ \A k \in 1..(Len(applied) - 1) : log[applied[k]].id # log[orders[1]].id
    /\ DOMAIN liveOrders # {}
    /\ ~faulted

----------------------------------------------------------------------------
(* C18: coverage of the log *)

\* the rows with occurrence time in [s, e), in (vega_time, seq_num) order
RowsWithin(s, e) ==
    SelectSeq([i \in 1..Len(log) |-> i],
              LAMBDA i : s <= log[i].vega_time /\ log[i].vega_time < e)

\* C18: in a run that reaches "done" after N buckets with nothing failing,
\* every row with time in [S0, S0 + N*W) was applied exactly once, in
\* (time, seq) order over the whole run, and no row with time at or after
\* S0 + N*W was applied: not the rows at T when T = S0 + N*W.
C18_Coverage ==
    (pc = "done" /\ ~faulted) =>
        /\ applied = RowsWithin(S0, S0 + Len(buckets) * width)
        /\ \A k \in 1..Len(applied) :
              log[applied[k]].vega_time < S0 + Len(buckets) * width
        /\ \A j, k \in 1..Len(applied) : j < k => applied[j] < applied[k]

\* the run ended after two buckets, the last block is on the end of the
\* second, a row carries its time and a row was applied
C18_Witness ==
    /\ pc = "done"
    /\ ~faulted
    /\ Len(buckets) = 2
    /\ lastBlock = S0 + 2 * width
    /\ \E i \in 1..Len(log) : log[i].vega_time = lastBlock
    /\ Len(applied) >= 1

\* two rows of one bucket were applied in a run that ended
C18_WitnessOrder ==
    /\ pc = "done"
    /\ ~faulted
    /\ \E j, k \in 1..Len(applied) :
          j < k /\ log[applied[j]].vega_time = log[applied[k]].vega_time

----------------------------------------------------------------------------
(* C19: main.go and part_000 side by side *)

\* every row is a limit order, not IOC, not FOK and not parked
PairPre ==
    \A i \in 1..Len(log) :
        /\ log[i].type = "Limit"
        /\ log[i].time_in_force \notin {"IOC", "FOK"}
        /\ log[i].status # "Parked"

\* an aggregation as the set of its (market, price, side, volume) entries
DepthByValue(d) ==
    UNION {{<<m, lev.price.val, lev.side, d[m][lev]>> : lev \in DOMAIN d[m]} :
              m \in DOMAIN d}

\* a table with the prices by value
TableByValue(table) ==
    [id \in DOMAIN table |-> [table[id] EXCEPT !.Price = table[id].Price.val]]

\* part_000 runs after main.go
Paired == rerun = "second" /\ variant = "minimal"

\* C19: over the same log, with the same S0 and W, main.go and part_000 have
\* equal liveOrders key sets and equal depth aggregations after every
\* bucket, provided every row is a limit order, not IOC or FOK, not parked.
C19_VariantsAgree ==
    (Paired /\ PairPre) =>
        \A k \in BothCompleted :
            /\ history[k].end = previous[k].end
            /\ DOMAIN history[k].table = DOMAIN previous[k].table
            /\ DepthByValue(history[k].depth) = DepthByValue(previous[k].depth)

\* what the code ensures under the precondition: the same orders in the
\* two tables, with the same fields
C19_TablesAgree ==
    (Paired /\ PairPre) =>
        \A k \in BothCompleted :
            /\ history[k].end = previous[k].end
            /\ TableByValue(history[k].table) = TableByValue(previous[k].table)

\* both programs completed two buckets over rows that meet the precondition
\* and hold an order
C19_Witness ==
    /\ Paired
    /\ PairPre
    /\ Len(history) = 2
    /\ Len(previous) = 2
    /\ history[2].table # EmptyMap

\* outside the precondition the key sets differ
C19_WitnessDiffer ==
    /\ Paired
    /\ ~PairPre
    /\ \E k \in BothCompleted :
          DOMAIN history[k].table # DOMAIN previous[k].table

====
